---- MODULE Spec2Model ----
(***************************************************************************)
(* Comment workflow of the blog platform: the comments table and its       *)
(* foreign keys (migrations/schema.sql) and the HTTP handlers that read    *)
(* and write it (netlify/functions/api.js): public read with tree build,   *)
(* public submission, and the token-protected status update and delete.    *)
(***************************************************************************)
EXTENDS Integers, Sequences, FiniteSets, TLC

\* ---------------------------------------------------------------- bounds
\* number of comment rows ever inserted (uuid_generate_v4 never repeats)
MaxComments == 3

\* number of rows of a query result handed to the tree build on its own
MaxRows == 4

\* highest page the load-more button of the post list is followed to
MaxPage == 3

\* number of api.getPosts calls of the post list awaited at once
MaxPending == 2

\* ------------------------------------------------------- value universes
\* SQL NULL / JS null or undefined, for string-valued and id-valued fields
NULL == "NULL"
NoId == 0
\* a request parameter that is not UUID-shaped where a comment id is expected
BadId == -1

\* rows of blog_posts at start: id |-> [slug, status]
InitialPosts ==
  [p \in {"p1", "p2"} |->
     IF p = "p1" THEN [slug |-> "s1", status |-> "published"]
                 ELSE [slug |-> "s2", status |-> "draft"]]

\* post references a caller can send: ids and slugs of the posts, plus a
\* UUID-shaped and a slug-shaped reference that match no row
PostRefs == {"p1", "p2", "p0", "s1", "s2", "s0"}

\* rows of users (no endpoint removes a user) and a UUID that matches none
Users == {"u1"}
UserRefs == {NULL, "u1", "u0"}

\* values a caller can send as status; NULL is a body without status
StatusInputs == {"pending", "approved", "spam", "deleted", "bogus", NULL}

\* Authorization header: absent, not verifiable, or a token signed for an
\* account whose role is 'user' or 'admin'
Tokens == {"none", "invalid", "user", "admin"}

\* author_name / content values a caller can send
TextInputs == {"", " ", "a"}

CommentIds == 1..MaxComments

VARIABLES
  blog_posts,   \* table blog_posts: post id -> row
  comments,     \* table comments: comment id -> row
  nextId,       \* number of rows inserted so far (the next fresh comment id)
  updated_now,  \* the rows whose updated_at the last statement set to NOW()
  now,          \* that NOW(), as a tick that tells the stamps of two
                \* consecutive statements apart (0 when no row was stamped)
  resultRows,   \* result.rows of the last read query (empty when the last
                \* request ran none)
  req,          \* the request handled last (fields the handler returned
                \* without reading are recorded as NULL / NoId)
  res,          \* its response: [code, body]
  commentsPage, \* the post page script (js/comments.js): the submit handler
                \* that ran last and what it showed
  blogPage,     \* the post list page script (js/blog.js): its state
                \* variables and the loadPosts calls awaiting api.getPosts
  inFlight      \* the moderation requests issued together: each with the
                \* status of its response, 0 while its handler has not run

vars == <<blog_posts, comments, nextId, updated_now, now, resultRows, req, res,
          commentsPage, blogPage, inFlight>>

\* the variables of the two page scripts
pageVars == <<commentsPage, blogPage>>

\* ------------------------------------------------------------ predicates
isUUID(str) == str \in {"p0", "p1", "p2"}

\* comments.status CHECK: passes when the test is true or unknown (NULL)
StatusCheck(s) == s \in {"pending", "approved", "spam", "deleted"} \/ s = NULL

\* express-validator chain .notEmpty().trim(): the validator sees the value
\* as sent, the sanitizer runs after it
Trim(s) == IF s = " " THEN "" ELSE s
notEmpty(s) == s # ""
validationOk(author_name, content) == notEmpty(author_name) /\ notEmpty(content)

\* authenticateToken: 401 without a token, 403 when jwt.verify fails,
\* otherwise next() -- the role carried by the token is not looked at
authenticateToken(token) ==
  IF token = "none" THEN 401
  ELSE IF token = "invalid" THEN 403
  ELSE 200

EmptyReq ==
  [op |-> "none", token |-> "none", post |-> NULL, id |-> NoId,
   parent_id |-> NoId, user_id |-> NULL, status |-> NULL,
   author_name |-> NULL, content |-> NULL]

\* the post page after DOMContentLoaded: no submit handler has run
commentsPageLoaded ==
  [handler |-> "none", awaiting |-> FALSE, submitDisabled |-> FALSE,
   alerts |-> 0, outcome |-> "none"]

\* the post list page after DOMContentLoaded: the state variables as
\* declared and the first loadPosts() awaiting api.getPosts
blogPageLoaded ==
  [currentCategory |-> "all", currentPage |-> 1, currentSort |-> "newest",
   searchQuery |-> "", isLoading |-> TRUE, pending |-> <<FALSE>>,
   grid |-> "loading", loadMore |-> TRUE, settled |-> "none"]

Init ==
  /\ commentsPage = commentsPageLoaded
  /\ blogPage = blogPageLoaded
  /\ inFlight = {}
  /\ blog_posts = InitialPosts
  /\ comments = << >>
  /\ nextId = 1
  /\ now = 0
  /\ updated_now = {}
  /\ resultRows = << >>
  /\ req = EmptyReq
  /\ res = [code |-> 0, body |-> NULL]

\* ------------------------------------------------------------ storage
\* the elements of a finite set of integers, ascending
RECURSIVE SortedSeq(_)
SortedSeq(S) ==
  IF S = {} THEN << >>
  ELSE LET m == CHOOSE x \in S : \A y \in S : x <= y
       IN <<m>> \o SortedSeq(S \ {m})

\* created_at DEFAULT NOW(): rows are inserted one statement at a time, so
\* creation time orders rows as their insertion number does
created_at(id) == id

\* a stored row with its primary key
Row(id) ==
  [id |-> id, post_id |-> comments[id].post_id,
   parent_id |-> comments[id].parent_id, status |-> comments[id].status]

\* SELECT c.* FROM comments c WHERE c.post_id = $1 AND c.status = 'approved'
\* ORDER BY c.created_at ASC
ApprovedRows_anyStatus(postId) ==
  LET ids == {c \in DOMAIN comments : comments[c].post_id = postId}
      ord == SortedSeq({created_at(c) : c \in ids})
  IN [k \in 1..Len(ord) |-> Row(ord[k])]

ApprovedRows(postId) ==
  LET ids == {c \in DOMAIN comments :
                comments[c].post_id = postId /\ comments[c].status = "approved"}
      ord == SortedSeq({created_at(c) : c \in ids})
  IN [k \in 1..Len(ord) |-> Row(ord[k])]

\* parent_id REFERENCES comments(id) ON DELETE CASCADE: the rows removed
\* together with the rows in S
CascadeFrom_oneLevel(S, tbl) == S \cup {c \in DOMAIN tbl : tbl[c].parent_id \in S}

CascadeFrom_none(S, tbl) == S

CascadeFrom_repliesOnly(S, tbl) == {c \in DOMAIN tbl : tbl[c].parent_id \in S}

RECURSIVE CascadeFrom(_, _)
CascadeFrom(S, tbl) ==
  LET more == {c \in DOMAIN tbl : tbl[c].parent_id \in S} \ S
  IN IF more = {} THEN S ELSE CascadeFrom(S \cup more, tbl)

Restrict(tbl, keep) == [c \in keep |-> tbl[c]]

\* ------------------------------------------------------------ tree build
\* second forEach: roots and each map entry's replies, as lists of ids
RECURSIVE attach_rootsOnly(_, _, _, _)
attach_rootsOnly(rows, k, keys, st) ==
  IF k > Len(rows) THEN st
  ELSE attach_rootsOnly(rows, k + 1, keys,
         IF rows[k].parent_id # NoId THEN st
         ELSE [st EXCEPT !.rootComments = Append(@, k)])

RECURSIVE attach_allRoots(_, _, _, _)
attach_allRoots(rows, k, keys, st) ==
  IF k > Len(rows) THEN st
  ELSE attach_allRoots(rows, k + 1, keys,
         [st EXCEPT !.rootComments = Append(@, k)])

RECURSIVE attach_orphanAsRoot(_, _, _, _)
attach_orphanAsRoot(rows, k, keys, st) ==
  IF k > Len(rows) THEN st
  ELSE LET comment == rows[k]
       IN attach_orphanAsRoot(rows, k + 1, keys,
            IF comment.parent_id # NoId /\ comment.parent_id \in keys
            THEN [st EXCEPT !.replies[comment.parent_id] = Append(@, k)]
            ELSE [st EXCEPT !.rootComments = Append(@, k)])

RECURSIVE attach_prepend(_, _, _, _)
attach_prepend(rows, k, keys, st) ==
  IF k > Len(rows) THEN st
  ELSE LET comment == rows[k]
       IN attach_prepend(rows, k + 1, keys,
            IF comment.parent_id # NoId
            THEN IF comment.parent_id \in keys
                 THEN [st EXCEPT !.replies[comment.parent_id] = <<k>> \o @]
                 ELSE st
            ELSE [st EXCEPT !.rootComments = <<k>> \o @])

RECURSIVE attach(_, _, _, _)
attach(rows, k, keys, st) ==
  IF k > Len(rows) THEN st
  ELSE LET comment == rows[k]
       IN attach(rows, k + 1, keys,
            IF comment.parent_id # NoId
            THEN IF comment.parent_id \in keys
                 THEN [st EXCEPT !.replies[comment.parent_id] = Append(@, k)]
                 ELSE st
            ELSE [st EXCEPT !.rootComments = Append(@, k)])

\* res.json of one map entry: the row and its replies, nested
toJson_shallow(rows, st, k) ==
  [id |-> rows[k].id, post_id |-> rows[k].post_id,
   parent_id |-> rows[k].parent_id, status |-> rows[k].status,
   replies |-> [j \in 1..Len(st.replies[rows[k].id]) |->
                  LET r == rows[st.replies[rows[k].id][j]]
                  IN [id |-> r.id, post_id |-> r.post_id, parent_id |-> r.parent_id,
                      status |-> r.status, replies |-> << >>]]]

RECURSIVE toJson(_, _, _)
toJson(rows, st, k) ==
  [id |-> rows[k].id, post_id |-> rows[k].post_id,
   parent_id |-> rows[k].parent_id, status |-> rows[k].status,
   replies |-> [j \in 1..Len(st.replies[rows[k].id]) |->
                  toJson(rows, st, st.replies[rows[k].id][j])]]

\* the nested structure built from the rows of one query result
buildTree(rows) ==
  LET keys == {rows[k].id : k \in 1..Len(rows)}
      commentsMap == [rootComments |-> << >>, replies |-> [i \in keys |-> << >>]]
      st == attach(rows, 1, keys, commentsMap)
  IN [j \in 1..Len(st.rootComments) |-> toJson(rows, st, st.rootComments[j])]

\* ids of all nodes of a forest, at any depth
RECURSIVE NodeIds(_)
NodeIds(forest) ==
  UNION {{forest[j].id} \cup NodeIds(forest[j].replies) : j \in 1..Len(forest)}

\* all nodes of a forest, at any depth
RECURSIVE Nodes(_)
Nodes(forest) ==
  UNION {{forest[j]} \cup Nodes(forest[j].replies) : j \in 1..Len(forest)}

\* ------------------------------------------------------------ handlers
Respond(code, body) == [code |-> code, body |-> body]

\* slug lookup: SELECT id FROM blog_posts WHERE slug = $1
PostsBySlug_other(slug) == {p \in DOMAIN blog_posts : blog_posts[p].slug # slug}

PostsBySlug(slug) == {p \in DOMAIN blog_posts : blog_posts[p].slug = slug}

\* the response of GET /api/blog/posts/:postId/comments in the current state
commentsResponse(postId) ==
  IF ~isUUID(postId) /\ PostsBySlug(postId) = {}
  THEN Respond(404, NULL)
  ELSE LET actualPostId == IF isUUID(postId) THEN postId
                           ELSE CHOOSE p \in PostsBySlug(postId) : TRUE
       IN Respond(200, buildTree(ApprovedRows(actualPostId)))

\* GET /api/blog/posts/:postId/comments
GetComments(postId) ==
  /\ req' = [EmptyReq EXCEPT !.op = "getComments", !.post = postId]
  /\ UNCHANGED <<blog_posts, comments, nextId, pageVars>>
  /\ now' = 0
  /\ updated_now' = {}
  /\ resultRows' = IF ~isUUID(postId) /\ PostsBySlug(postId) = {} THEN << >>
                   ELSE ApprovedRows(IF isUUID(postId) THEN postId
                                     ELSE CHOOSE p \in PostsBySlug(postId) : TRUE)
  /\ res' = commentsResponse(postId)

\* user_id ? 'approved' : 'pending'
initialStatus_always(user_id) == "approved"

initialStatus_swapped(user_id) == IF user_id # NULL THEN "pending" ELSE "approved"

initialStatus(user_id) == IF user_id # NULL THEN "approved" ELSE "pending"

\* postCheck.rows: the posts found for the reference, by slug or by id
postCheck_noIdLookup(postId) ==
  IF ~isUUID(postId) THEN PostsBySlug(postId) ELSE {postId}

postCheck(postId) ==
  IF ~isUUID(postId) THEN PostsBySlug(postId)
  ELSE {p \in DOMAIN blog_posts : p = postId}

\* INSERT INTO comments (...) VALUES (...): the table with one more row
insertRow_statusToAll(tbl, id, row) ==
  [c \in DOMAIN tbl \cup {id} |->
     IF c = id THEN row ELSE [tbl[c] EXCEPT !.status = row.status]]

insertRow(tbl, id, row) ==
  [c \in DOMAIN tbl \cup {id} |-> IF c = id THEN row ELSE tbl[c]]

\* POST /api/blog/posts/:postId/comments
PostComment(token, postId, author_name, content, parent_id, user_id) ==
  /\ UNCHANGED <<blog_posts, pageVars>>
  /\ resultRows' = << >>
  /\ IF ~validationOk(author_name, content)
     THEN /\ req' = [EmptyReq EXCEPT !.op = "postComment", !.token = token,
                       !.author_name = author_name, !.content = content]
          /\ res' = Respond(400, NULL)
          /\ updated_now' = {}
          /\ now' = 0
          /\ UNCHANGED <<comments, nextId>>
     ELSE IF postCheck(postId) = {}
     THEN /\ req' = [EmptyReq EXCEPT !.op = "postComment", !.token = token,
                       !.author_name = author_name, !.content = content,
                       !.post = postId]
          /\ res' = Respond(404, NULL)
          /\ updated_now' = {}
          /\ now' = 0
          /\ UNCHANGED <<comments, nextId>>
     ELSE LET actualPostId == CHOOSE p \in postCheck(postId) : TRUE
              \* the columns of the INSERT that the handlers read back
              row == [post_id |-> actualPostId, parent_id |-> parent_id,
                      status |-> initialStatus(user_id)]
              \* uuid type and foreign keys of post_id, parent_id and user_id,
              \* status CHECK
              accepted == /\ actualPostId \in DOMAIN blog_posts
                          /\ parent_id = NoId \/ parent_id \in DOMAIN comments
                          /\ user_id = NULL \/ user_id \in Users
                          /\ StatusCheck(row.status)
          IN /\ req' = [EmptyReq EXCEPT !.op = "postComment", !.token = token,
                          !.author_name = author_name, !.content = content,
                          !.post = postId, !.parent_id = parent_id,
                          !.user_id = user_id]
             /\ IF accepted
                THEN /\ nextId <= MaxComments
                     /\ comments' = insertRow(comments, nextId, row)
                     /\ nextId' = nextId + 1
                     /\ now' = 1 - now
                     /\ updated_now' = {nextId}
                     /\ res' = Respond(201,
                          [id |-> nextId, post_id |-> row.post_id,
                           parent_id |-> row.parent_id, status |-> row.status,
                           user_id |-> user_id, author_name |-> Trim(author_name),
                           content |-> Trim(content)])
                ELSE /\ res' = Respond(500, NULL)
                     /\ updated_now' = {}
                     /\ now' = 0
                     /\ UNCHANGED <<comments, nextId>>

\* UPDATE comments SET status = $1 WHERE id = $2
updateStatus_allRows(tbl, id, status) == [c \in DOMAIN tbl |-> [tbl[c] EXCEPT !.status = status]]

updateStatus_toggle(tbl, id, status) ==
  [tbl EXCEPT ![id].status = IF @ = status THEN "pending" ELSE status]

updateStatus(tbl, id, status) == [tbl EXCEPT ![id].status = status]

\* PUT /api/admin/comments/:id
UpdateCommentStatus(token, id, status) ==
  /\ UNCHANGED <<blog_posts, nextId, pageVars>>
  /\ resultRows' = << >>
  /\ IF authenticateToken(token) # 200
     THEN /\ req' = [EmptyReq EXCEPT !.op = "updateComment", !.token = token]
          /\ res' = Respond(authenticateToken(token), NULL)
          /\ updated_now' = {}
          /\ now' = 0
          /\ UNCHANGED comments
     ELSE /\ req' = [EmptyReq EXCEPT !.op = "updateComment", !.token = token,
                       !.id = id, !.status = status]
          /\ IF id = BadId
             THEN \* invalid input syntax for type uuid
                  /\ res' = Respond(500, NULL)
                  /\ updated_now' = {}
                  /\ now' = 0
                  /\ UNCHANGED comments
             ELSE IF id \notin DOMAIN comments
             THEN /\ res' = Respond(404, NULL)
                  /\ updated_now' = {}
                  /\ now' = 0
                  /\ UNCHANGED comments
             ELSE IF ~StatusCheck(status)
             THEN \* the new row violates the status CHECK
                  /\ res' = Respond(500, NULL)
                  /\ updated_now' = {}
                  /\ now' = 0
                  /\ UNCHANGED comments
             ELSE \* the BEFORE UPDATE trigger sets updated_at = NOW()
                  /\ comments' = updateStatus(comments, id, status)
                  /\ now' = 1 - now
                  /\ updated_now' = {id}
                  /\ res' = Respond(200,
                       [id |-> id, post_id |-> comments[id].post_id,
                        parent_id |-> comments[id].parent_id, status |-> status])

\* DELETE /api/admin/comments/:id
DeleteComment(token, id) ==
  /\ UNCHANGED <<blog_posts, nextId, pageVars>>
  /\ resultRows' = << >>
  /\ now' = 0
  /\ updated_now' = {}
  /\ IF authenticateToken(token) # 200
     THEN /\ req' = [EmptyReq EXCEPT !.op = "deleteComment", !.token = token]
          /\ res' = Respond(authenticateToken(token), NULL)
          /\ UNCHANGED comments
     ELSE /\ req' = [EmptyReq EXCEPT !.op = "deleteComment", !.token = token,
                       !.id = id]
          /\ IF id = BadId
             THEN /\ res' = Respond(500, NULL)
                  /\ UNCHANGED comments
             ELSE /\ comments' =
                       Restrict(comments,
                         DOMAIN comments \ CascadeFrom({id} \cap DOMAIN comments, comments))
                  /\ res' = Respond(200, "success")

\* --------------------------------------------------------- request catalogue
\* The requests drawn in each state. A request carries at most one faulty
\* field (one the handler answers with an error), and a request that carries
\* one has a plain value in every other field.
PostCommentRequests ==
  LET missing == (CommentIds \cup {BadId}) \ DOMAIN comments
      \* a plain submission and the ones that differ from it in the token,
      \* the form of the post reference or surrounding whitespace
      forms == {<<"none", "id", "a", "a">>, <<"admin", "id", "a", "a">>,
                <<"none", "slug", "a", "a">>, <<"none", "id", " ", "a">>,
                <<"none", "id", "a", " ">>}
      ref(p, form) == IF form = "id" THEN p ELSE blog_posts[p].slug
      wellFormed ==
        IF nextId > MaxComments THEN {}
        ELSE {<<f[1], ref(p, f[2]), f[3], f[4], c, u>> :
                f \in forms, p \in DOMAIN blog_posts,
                c \in DOMAIN comments \cup {NoId}, u \in {NULL, "u1"}}
  IN wellFormed
     \cup {<<"none", "p1", "", "a", NoId, NULL>>, <<"none", "p1", "a", "", NoId, NULL>>}
     \cup {<<"none", p, "a", "a", NoId, NULL>> : p \in {"p0", "s0"}}
     \cup {<<"none", "p1", "a", "a", c, NULL>> : c \in missing}
     \cup {<<"none", "p1", "a", "a", NoId, "u0">>}

UpdateCommentRequests ==
  LET missing == (CommentIds \cup {BadId}) \ DOMAIN comments
  IN ({"admin"} \X (DOMAIN comments) \X (StatusInputs \ {"bogus"}))
     \cup {<<"user", c, "approved">> : c \in DOMAIN comments}
     \cup {<<t, BadId, "approved">> : t \in {"none", "invalid"}}
     \cup {<<"admin", c, "approved">> : c \in missing}
     \cup {<<"admin", c, "bogus">> : c \in DOMAIN comments}

DeleteCommentRequests ==
  LET missing == (CommentIds \cup {BadId}) \ DOMAIN comments
  IN ({"user", "admin"} \X (DOMAIN comments))
     \cup {<<t, BadId>> : t \in {"none", "invalid"}}
     \cup {<<"admin", c>> : c \in missing}

Next ==
  \/ (\E postId \in PostRefs : GetComments(postId))
       /\ UNCHANGED inFlight
  \/ (\E r \in PostCommentRequests : PostComment(r[1], r[2], r[3], r[4], r[5], r[6]))
       /\ UNCHANGED inFlight
  \/ (\E r \in UpdateCommentRequests : UpdateCommentStatus(r[1], r[2], r[3]))
       /\ UNCHANGED inFlight
  \/ (\E r \in DeleteCommentRequests : DeleteComment(r[1], r[2]))
       /\ UNCHANGED inFlight

Spec == Init /\ [][Next]_vars

\* ------------------------------------------------- the tree build on its own
\* Rows a read query can return for post p1. The parent of a row was stored
\* before the row (the parent_id foreign key), so it has a smaller insertion
\* number; it is missing from the result when it is not approved, belongs to
\* another post or is gone.
TreeRows ==
  {[id |-> ip[1], post_id |-> "p1", parent_id |-> ip[2], status |-> "approved"] :
     ip \in {x \in (1..MaxRows) \X ({NoId} \cup 1..MaxRows) : x[2] < x[1]}}

\* Query results: rows with distinct primary keys, in any order (created_at
\* is the server clock at insertion, which ties or steps back)
TreeInputs ==
  UNION {{rs \in [1..n -> TreeRows] :
            \A i, k \in 1..n : i # k => rs[i].id # rs[k].id} : n \in 0..MaxRows}

TreeInit ==
  /\ commentsPage = commentsPageLoaded
  /\ blogPage = blogPageLoaded
  /\ inFlight = {}
  /\ blog_posts = InitialPosts
  /\ comments = << >>
  /\ nextId = 1
  /\ now = 0
  /\ updated_now = {}
  /\ resultRows \in TreeInputs
  /\ req = [EmptyReq EXCEPT !.op = "getComments", !.post = "p1"]
  /\ res = [code |-> 0, body |-> NULL]

\* the second half of the read handler: result.rows to res.json(rootComments)
BuildTree ==
  /\ res.code = 0
  /\ res' = Respond(200, buildTree(resultRows))
  /\ UNCHANGED <<blog_posts, comments, nextId, updated_now, now, resultRows, req,
                 pageVars, inFlight>>

TreeNext == BuildTree

SpecTree == TreeInit /\ [][TreeNext]_vars

\* ------------------------------------------------ the post page (comments.js)
\* what the await of api.postComment settles with: the status of a response
\* of the submission handler, or 0 when fetch rejects and there is none
FetchOutcomes == {0, 201, 400, 404, 500}

\* api.getUser(): the user kept in localStorage, if any
LocalUsers == {NULL, "u1"}

\* the body the submit handlers hand to api.postComment
commentRequest(authorName, content, parentId, user) ==
  [EmptyReq EXCEPT !.op = "postComment", !.post = "p1",
                   !.author_name = authorName, !.content = content,
                   !.parent_id = parentId, !.user_id = user]

\* handleCommentSubmit up to the await of api.postComment
HandleCommentSubmit(authorName, content, parentId, user) ==
  /\ ~commentsPage.awaiting
  /\ res' = [code |-> 0, body |-> NULL]
  /\ IF authorName = "" \/ content = ""
     THEN \* alert('Name and content are required'); return
          /\ commentsPage' = [handler |-> "handleCommentSubmit", awaiting |-> FALSE,
                              submitDisabled |-> FALSE, alerts |-> 1,
                              outcome |-> "invalid"]
          /\ req' = EmptyReq
     ELSE /\ commentsPage' = [handler |-> "handleCommentSubmit", awaiting |-> TRUE,
                              submitDisabled |-> TRUE, alerts |-> 0,
                              outcome |-> "none"]
          /\ req' = commentRequest(authorName, content, parentId, user)
  /\ UNCHANGED <<blog_posts, comments, nextId, updated_now, now, resultRows, blogPage,
                 inFlight>>

\* window.handleReplySubmit up to the await of api.postComment
HandleReplySubmit(parentId, authorName, content, user) ==
  /\ ~commentsPage.awaiting
  /\ res' = [code |-> 0, body |-> NULL]
  /\ IF authorName = "" \/ content = ""
     THEN \* return
          /\ commentsPage' = [handler |-> "handleReplySubmit", awaiting |-> FALSE,
                              submitDisabled |-> FALSE, alerts |-> 0,
                              outcome |-> "invalid"]
          /\ req' = EmptyReq
     ELSE /\ commentsPage' = [handler |-> "handleReplySubmit", awaiting |-> TRUE,
                              submitDisabled |-> TRUE, alerts |-> 0,
                              outcome |-> "none"]
          /\ req' = commentRequest(authorName, content, parentId, user)
  /\ UNCHANGED <<blog_posts, comments, nextId, updated_now, now, resultRows, blogPage,
                 inFlight>>

\* what the catch block of a submit handler shows: console.error only
alertsOnError(handler) == 0

\* the rest of either submit handler, once api.postComment has settled:
\* api.request throws unless response.ok, the catch block logs, the finally
\* block enables the button again
PostCommentSettles(status) ==
  /\ commentsPage.awaiting
  /\ res' = Respond(status, NULL)
  /\ commentsPage' =
       IF status = 201
       THEN [commentsPage EXCEPT !.awaiting = FALSE, !.submitDisabled = FALSE,
                                 !.outcome = "posted"]
       ELSE [commentsPage EXCEPT !.awaiting = FALSE, !.submitDisabled = FALSE,
                                 !.outcome = "caught",
                                 !.alerts = alertsOnError(commentsPage.handler)]
  /\ UNCHANGED <<blog_posts, comments, nextId, updated_now, now, resultRows, req,
                 blogPage, inFlight>>

CommentsPageInit ==
  /\ commentsPage = commentsPageLoaded
  /\ blogPage = blogPageLoaded
  /\ inFlight = {}
  /\ blog_posts = InitialPosts
  /\ comments = << >>
  /\ nextId = 1
  /\ now = 0
  /\ updated_now = {}
  /\ resultRows = << >>
  /\ req = EmptyReq
  /\ res = [code |-> 0, body |-> NULL]

\* The comment form is submitted with any text in its fields; the reply
\* form marks both fields required, so it is submitted with text in both.
CommentsPageNext ==
  \/ \E authorName \in TextInputs, content \in TextInputs,
        parentId \in CommentIds \cup {NoId}, user \in LocalUsers :
       HandleCommentSubmit(authorName, content, parentId, user)
  \/ \E parentId \in CommentIds, authorName \in TextInputs \ {""},
        content \in TextInputs \ {""}, user \in LocalUsers :
       HandleReplySubmit(parentId, authorName, content, user)
  \/ \E status \in FetchOutcomes : PostCommentSettles(status)

SpecCommentsPage == CommentsPageInit /\ [][CommentsPageNext]_vars

\* ------------------------------------------------ the post list page (blog.js)
Categories == {"all", "c1"}
Sorts == {"newest", "oldest"}
Searches == {"", "q"}

\* what the await of api.getPosts settles with: a full page of 6 posts,
\* fewer posts, none, or an error thrown by api.request
GetPostsOutcomes == {"six", "some", "empty", "error"}

\* loadPosts(append) up to the await of api.getPosts
loadPosts_noGuard(bp, append) ==
  [bp EXCEPT !.isLoading = TRUE, !.pending = Append(@, append),
             !.grid = IF append THEN @ ELSE "loading"]

loadPosts(bp, append) ==
  IF bp.isLoading THEN bp
  ELSE [bp EXCEPT !.isLoading = TRUE, !.pending = Append(@, append),
                  !.grid = IF append THEN @ ELSE "loading"]

\* the frame of the steps of the post list page
BlogFrame ==
  UNCHANGED <<blog_posts, comments, nextId, updated_now, now, resultRows, req, res,
              commentsPage, inFlight>>

\* the search box, once its 300 ms timer fires
SearchInput(value) ==
  /\ Len(blogPage.pending) < MaxPending
  /\ blogPage' = loadPosts([blogPage EXCEPT !.searchQuery = value,
                                            !.currentPage = 1], FALSE)
  /\ BlogFrame

\* the sort select changes
SortChange(value) ==
  /\ Len(blogPage.pending) < MaxPending
  /\ blogPage' = loadPosts([blogPage EXCEPT !.currentSort = value,
                                            !.currentPage = 1], FALSE)
  /\ BlogFrame

\* a category filter button is clicked
CategoryClick(category) ==
  /\ Len(blogPage.pending) < MaxPending
  /\ blogPage' = loadPosts([blogPage EXCEPT !.currentCategory = category,
                                            !.currentPage = 1], FALSE)
  /\ BlogFrame

\* the load-more button is clicked
LoadMoreClick ==
  /\ Len(blogPage.pending) < MaxPending
  /\ blogPage.loadMore
  /\ blogPage.currentPage < MaxPage
  /\ blogPage' = loadPosts([blogPage EXCEPT !.currentPage = @ + 1], TRUE)
  /\ BlogFrame

\* the rest of loadPosts, once an awaited api.getPosts has settled
GetPostsSettles(k, outcome) ==
  /\ k \in 1..Len(blogPage.pending)
  /\ LET append == blogPage.pending[k]
         rest == [j \in 1..(Len(blogPage.pending) - 1) |->
                    IF j < k THEN blogPage.pending[j] ELSE blogPage.pending[j + 1]]
     IN blogPage' =
          [blogPage EXCEPT
             !.pending = rest,
             !.settled = outcome,
             \* every path ends with isLoading = false (132, 150)
             !.isLoading = FALSE,
             !.grid = IF append THEN @
                      ELSE IF outcome \in {"six", "some"} THEN "posts" ELSE "empty",
             !.loadMore = IF outcome = "error" THEN @
                          ELSE IF outcome = "empty" /\ ~append THEN FALSE
                          ELSE outcome = "six"]
  /\ BlogFrame

BlogInit ==
  /\ commentsPage = commentsPageLoaded
  /\ blogPage = blogPageLoaded
  /\ inFlight = {}
  /\ blog_posts = InitialPosts
  /\ comments = << >>
  /\ nextId = 1
  /\ now = 0
  /\ updated_now = {}
  /\ resultRows = << >>
  /\ req = EmptyReq
  /\ res = [code |-> 0, body |-> NULL]

BlogNext ==
  \/ \E value \in Searches : SearchInput(value)
  \/ \E value \in Sorts : SortChange(value)
  \/ \E category \in Categories : CategoryClick(category)
  \/ LoadMoreClick
  \/ \E k \in 1..MaxPending, outcome \in GetPostsOutcomes : GetPostsSettles(k, outcome)

SpecBlog == BlogInit /\ [][BlogNext]_vars

\* ------------------------------------- an approve and a delete issued together
\* Tables the handlers can have built: rows numbered as inserted, each parent
\* inserted before its replies, any post, pending or approved.
StoredTables ==
  UNION {{tbl \in [1..n -> [post_id : DOMAIN InitialPosts,
                            parent_id : {NoId} \cup 1..n,
                            status : {"pending", "approved"}]] :
            \A c \in 1..n : tbl[c].parent_id < c} : n \in 1..MaxComments}

\* PUT /api/admin/comments/c {status: 'approved'} and DELETE
\* /api/admin/comments/c, both received and neither handled yet
ModerationRequests(c) ==
  {[op |-> "updateComment", token |-> "admin", id |-> c, status |-> "approved",
    code |-> 0],
   [op |-> "deleteComment", token |-> "admin", id |-> c, status |-> NULL,
    code |-> 0]}

ModerationInit ==
  /\ commentsPage = commentsPageLoaded
  /\ blogPage = blogPageLoaded
  /\ blog_posts = InitialPosts
  /\ comments \in StoredTables
  /\ nextId = Len(comments) + 1
  /\ now = 0
  /\ updated_now = {}
  /\ resultRows = << >>
  /\ req = EmptyReq
  /\ res = [code |-> 0, body |-> NULL]
  /\ \E c \in DOMAIN comments : inFlight = ModerationRequests(c)

\* the handler of a request in flight runs: the statement and the response
HandleInFlight ==
  \E r \in inFlight :
    /\ r.code = 0
    /\ IF r.op = "updateComment"
       THEN UpdateCommentStatus(r.token, r.id, r.status)
       ELSE DeleteComment(r.token, r.id)
    /\ inFlight' = (inFlight \ {r}) \cup {[r EXCEPT !.code = res'.code]}

\* a public read at any moment
ReadMeanwhile ==
  /\ \E postId \in PostRefs : GetComments(postId)
  /\ UNCHANGED inFlight

ModerationNext == HandleInFlight \/ ReadMeanwhile

SpecModeration == ModerationInit /\ [][ModerationNext]_vars

\* ================================================================ properties
\* the shape of the state
TypeOK ==
  /\ DOMAIN blog_posts \subseteq {p \in PostRefs : isUUID(p)}
  /\ DOMAIN comments \subseteq CommentIds
  /\ \A c \in DOMAIN comments :
       /\ comments[c].post_id \in DOMAIN blog_posts
       /\ comments[c].parent_id \in CommentIds \cup {NoId}
       /\ StatusCheck(comments[c].status)
  /\ nextId \in 1..(MaxComments + 1)
  /\ DOMAIN comments \subseteq 1..(nextId - 1)
  /\ updated_now \subseteq DOMAIN comments
  /\ now \in {0, 1}
  /\ req.token \in Tokens
  /\ req.post \in PostRefs \cup {NULL}
  /\ req.user_id \in UserRefs
  /\ req.status \in StatusInputs
  /\ req.author_name \in TextInputs \cup {NULL}
  /\ req.content \in TextInputs \cup {NULL}
  /\ req.id \in CommentIds \cup {NoId, BadId}
  /\ req.parent_id \in CommentIds \cup {NoId, BadId}
  /\ res.code \in {0, 200, 201, 400, 401, 403, 404, 500}

\* the post a reference designates: the row with that id or that slug
ResolvedPost(ref) ==
  IF ref \in DOMAIN blog_posts THEN ref
  ELSE IF PostsBySlug(ref) # {} THEN CHOOSE p \in PostsBySlug(ref) : TRUE
  ELSE NULL

\* the references that designate post p
RefsOf(p) == {ref \in PostRefs : ResolvedPost(ref) = p}

\* the ids of the comments contained in the forest of some read in this state
ReadableIds ==
  UNION {LET r == commentsResponse(ref)
         IN IF r.code = 200 THEN NodeIds(r.body) ELSE {} : ref \in PostRefs}

\* comment c is contained in the forest some read returns in this state
Readable(c) == c \in ReadableIds

\* comment c is contained in the forest every read of post p returns
ReadableOn(c, p) ==
  \A ref \in RefsOf(p) :
    /\ commentsResponse(ref).code = 200
    /\ c \in NodeIds(commentsResponse(ref).body)

Created == req.op = "postComment" /\ res.code = 201

\* C1: every node, at any depth, of a forest returned by the read endpoint is
\* a stored comment whose status is 'approved' and whose post is the resolved
\* post of the request.
C1_ReadOnlyApproved ==
  (req.op = "getComments" /\ res.code = 200) =>
    \A n \in Nodes(res.body) :
      /\ n.id \in DOMAIN comments
      /\ n.status = "approved"
      /\ comments[n.id].status = "approved"
      /\ comments[n.id].post_id = ResolvedPost(req.post)
      /\ \A k \in 1..Len(n.replies) : comments[n.replies[k].id].status = "approved"

\* a read that returned a nested reply while the same post holds a comment
\* that is not approved
C1_Witness ==
  /\ req.op = "getComments" /\ res.code = 200
  /\ \E j \in 1..Len(res.body) : Len(res.body[j].replies) > 0
  /\ \E c \in DOMAIN comments :
       /\ comments[c].post_id = ResolvedPost(req.post)
       /\ comments[c].status \in {"pending", "spam", "deleted"}

\* C2: a stored comment is in a read result only while its status is
\* 'approved'; a comment submitted without user_id is created 'pending', and
\* the status of a stored comment becomes 'approved' only by a successful
\* status update of that comment to 'approved'.
C2_UnreadableUntilApproved ==
  /\ [](\A c \in ReadableIds : c \in DOMAIN comments /\ comments[c].status = "approved")
  /\ [][\A c \in CommentIds :
          /\ (c \notin DOMAIN comments /\ c \in DOMAIN comments' /\ req'.user_id = NULL)
               => comments'[c].status = "pending"
          /\ (/\ c \in DOMAIN comments /\ c \in DOMAIN comments'
              /\ comments[c].status # "approved" /\ comments'[c].status = "approved")
               => /\ req'.op = "updateComment" /\ res'.code = 200
                  /\ req'.id = c /\ req'.status = "approved"]_vars

\* an anonymous comment just created on a post that has a readable comment
C2_Witness ==
  /\ Created /\ req.user_id = NULL
  /\ ~Readable(res.body.id)
  /\ \E c \in DOMAIN comments : comments[c].post_id = res.body.post_id /\ Readable(c)

\* C3 as stated: a comment created with user_id, top-level or reply, is
\* contained in the forest the next read of its post returns.
C3_Original ==
  (Created /\ req.user_id # NULL) => ReadableOn(res.body.id, res.body.post_id)

\* C3 amended: a comment created with user_id is contained in the forest the
\* next read of its post returns when it is top-level or its parent is
\* contained in that forest.
C3_ReadableWhenParentIs ==
  (/\ Created /\ req.user_id # NULL
   /\ \/ res.body.parent_id = NoId
      \/ ReadableOn(res.body.parent_id, res.body.post_id))
  => ReadableOn(res.body.id, res.body.post_id)

\* a reply created with user_id under a readable parent
C3_Witness ==
  /\ Created /\ req.user_id # NULL /\ res.body.parent_id # NoId
  /\ ReadableOn(res.body.parent_id, res.body.post_id)
  /\ ReadableOn(res.body.id, res.body.post_id)

\* C4: the row a successful submission inserts has status 'approved' exactly
\* when the submission carries user_id, and 'pending' otherwise.
C4_InitialStatus ==
  Created =>
    /\ res.body.id \in DOMAIN comments
    /\ comments[res.body.id].status \in {"pending", "approved"}
    /\ (comments[res.body.id].status = "approved") <=> (req.user_id # NULL)
    /\ res.body.status = comments[res.body.id].status

\* a submission with user_id stored as approved beside a pending comment
C4_Witness ==
  /\ Created /\ req.user_id = "u1"
  /\ comments[res.body.id].status = "approved"
  /\ \E c \in DOMAIN comments : comments[c].status = "pending"

\* C5: a submission that carries no bearer token creates the comment in
\* status 'pending'.
C5_AnonymousIsPending ==
  (Created /\ req.token = "none") => comments[res.body.id].status = "pending"

\* the step handled a status update to 'approved' that passed authentication
ApproveStep(c) ==
  /\ req'.op = "updateComment" /\ req'.status = "approved" /\ req'.id = c
  /\ res'.code \notin {401, 403}

\* the row of c keeps the updated_at it had
UpdatedAtKept(c) ==
  IF c \in updated_now THEN c \in updated_now' /\ now' = now
  ELSE c \notin updated_now'

SecondApprove(c) ==
  /\ req.op = "updateComment" /\ req.status = "approved" /\ req.id = c
  /\ res.code = 200
  /\ ApproveStep(c)

\* C7 as stated: a second approve in a row succeeds, leaves the comment
\* approved, and leaves the store as the first approve left it.
C7_Original ==
  [][\A c \in CommentIds :
       SecondApprove(c) =>
         /\ res'.code = 200
         /\ comments'[c].status = "approved"
         /\ comments' = comments
         /\ \A d \in DOMAIN comments : UpdatedAtKept(d)]_vars

\* C7 amended: a second approve in a row succeeds, leaves the comment
\* approved, and leaves every column of every row other than the comment's
\* updated_at as the first approve left it.
C7_ApproveIdempotent ==
  [][\A c \in CommentIds :
       SecondApprove(c) =>
         /\ res'.code = 200
         /\ res'.body.status = "approved"
         /\ comments'[c].status = "approved"
         /\ comments' = comments
         /\ \A d \in DOMAIN comments \ {c} : UpdatedAtKept(d)]_vars

\* the state an approve and its repetition both end in: the comment is
\* approved, its row carries the stamp of the last statement, and a reply
\* to it is stored
C7_Witness ==
  /\ req.op = "updateComment" /\ req.status = "approved" /\ res.code = 200
  /\ comments[req.id].status = "approved"
  /\ updated_now = {req.id}
  /\ \E d \in DOMAIN comments : comments[d].parent_id = req.id

\* C8: no operation puts a comment that is approved back into pending.
C8_NoReturnToPending ==
  [][\A c \in DOMAIN comments :
       (comments[c].status = "approved" /\ c \in DOMAIN comments')
         => comments'[c].status # "pending"]_vars

\* C9: a comment whose status is deleted keeps that status.
C9_DeletedTerminal ==
  [][\A c \in DOMAIN comments :
       (comments[c].status = "deleted" /\ c \in DOMAIN comments')
         => comments'[c].status = "deleted"]_vars

\* the chain of parents above c in the table tbl
RECURSIVE Ancestors(_, _)
Ancestors(c, tbl) ==
  IF c \notin DOMAIN tbl \/ tbl[c].parent_id = NoId THEN {}
  ELSE {tbl[c].parent_id} \cup Ancestors(tbl[c].parent_id, tbl)

\* the replies to c at any depth
Descendants(c, tbl) == {d \in DOMAIN tbl : c \in Ancestors(d, tbl)}

\* C10: a delete of a stored comment removes it and its descendants at any
\* depth and no other row, leaves the remaining rows as they were, and no
\* read returns a removed comment; a removed id never names a row again.
C10_DeleteCascades ==
  /\ [][\A c \in CommentIds :
          /\ (/\ req'.op = "deleteComment" /\ req'.id = c /\ res'.code = 200
              /\ c \in DOMAIN comments)
               => /\ DOMAIN comments' =
                       DOMAIN comments \ ({c} \cup Descendants(c, comments))
                  /\ \A d \in DOMAIN comments' : comments'[d] = comments[d]
          /\ (c < nextId /\ c \notin DOMAIN comments) => c \notin DOMAIN comments']_vars
  /\ [](ReadableIds \subseteq DOMAIN comments)

\* a delete has removed a comment together with a reply and a reply to that
\* reply, all rows ever inserted on top of it
C10_Witness ==
  /\ req.op = "deleteComment" /\ res.code = 200 /\ req.id = 1
  /\ nextId > MaxComments
  /\ DOMAIN comments = {}

\* C11: a delete of an id that matches no stored comment answers 404 and
\* leaves the store unchanged.
C11_DeleteMissingIs404 ==
  [][(/\ req'.op = "deleteComment" /\ req'.id \in CommentIds
      /\ req'.id \notin DOMAIN comments)
       => (res'.code = 404 /\ comments' = comments)]_vars

\* C12: a status update or delete changes or removes a comment only for a
\* caller with a moderator identity: without a token the answer is 401, with
\* a token that does not verify 403, with the token of an account that is
\* not a moderator a rejection, and in each case the store is unchanged.
C12_ModeratorOnly ==
  [][(req'.op \in {"updateComment", "deleteComment"} /\ req'.token # "admin")
       => /\ res'.code \in {401, 403}
          /\ req'.token = "none" => res'.code = 401
          /\ req'.token = "invalid" => res'.code = 403
          /\ comments' = comments]_vars

\* the tree of a query result has been built and sent
Built == req.op = "getComments" /\ res.code = 200

\* the primary keys of a query result
RowIds(rs) == {rs[k].id : k \in 1..Len(rs)}

\* every non-null parent_id of the result is the id of a row of the result
AllResolve(rs) ==
  \A k \in 1..Len(rs) : rs[k].parent_id # NoId => rs[k].parent_id \in RowIds(rs)

\* the rows of the result with parent_id null
NullParentRows(rs) == {k \in 1..Len(rs) : rs[k].parent_id = NoId}

\* C13: when every non-null parent_id of the input resolves within the
\* input, the tree build returns as many roots as the input has comments
\* with parent_id null, and the roots are exactly those comments.
C13_RootsAreNullParents ==
  (Built /\ AllResolve(resultRows)) =>
    /\ Len(res.body) = Cardinality(NullParentRows(resultRows))
    /\ {res.body[j].id : j \in 1..Len(res.body)}
         = {resultRows[k].id : k \in NullParentRows(resultRows)}
    /\ \A j \in 1..Len(res.body) : res.body[j].parent_id = NoId

C13_Witness ==
  /\ Built /\ AllResolve(resultRows)
  /\ Len(res.body) = 2
  /\ Len(resultRows) = 4

\* the ids of the nodes of a forest, one entry per node, parents first
RECURSIVE FlatIds(_)
FlatIds(forest) ==
  IF forest = << >> THEN << >>
  ELSE <<forest[1].id>> \o FlatIds(forest[1].replies) \o FlatIds(Tail(forest))

\* the rows whose non-null parent_id is the id of no row of the result
Orphans(rs) ==
  {k \in 1..Len(rs) : rs[k].parent_id # NoId /\ rs[k].parent_id \notin RowIds(rs)}

\* C14: a comment of the input whose non-null parent_id matches no comment
\* of the input is left out of the forest (neither a root nor a reply of any
\* node), the read still answers 200, and the forest has fewer nodes than
\* the input has comments.
C14_OrphanExcluded ==
  (req.op = "getComments" /\ res.code # 0 /\ Orphans(resultRows) # {}) =>
    /\ res.code = 200
    /\ \A k \in Orphans(resultRows) : resultRows[k].id \notin NodeIds(res.body)
    /\ Len(FlatIds(res.body)) < Len(resultRows)

\* a root, a reply to it and an orphan give the root with its one reply
C14_Witness ==
  /\ Built
  /\ Len(resultRows) = 3 /\ Cardinality(Orphans(resultRows)) = 1
  /\ resultRows[1].parent_id = NoId
  /\ resultRows[2].parent_id = resultRows[1].id
  /\ FlatIds(res.body) = <<resultRows[1].id, resultRows[2].id>>
  /\ Len(res.body) = 1 /\ Len(res.body[1].replies) = 1

\* the sibling lists of a forest: the root list and every replies list
RECURSIVE SiblingLists(_)
SiblingLists(forest) ==
  {forest} \cup UNION {SiblingLists(forest[j].replies) : j \in 1..Len(forest)}

\* C15: two comments of the forest with the same parent_id (two roots
\* included) stand in one sibling list, the one that comes first in the
\* input first.
C15_SiblingOrder ==
  Built =>
    \A i, k \in 1..Len(resultRows) :
      (/\ i < k
       /\ resultRows[i].parent_id = resultRows[k].parent_id
       /\ {resultRows[i].id, resultRows[k].id} \subseteq NodeIds(res.body))
        => \E L \in SiblingLists(res.body) : \E a, b \in 1..Len(L) :
             a < b /\ L[a].id = resultRows[i].id /\ L[b].id = resultRows[k].id

\* two roots and two replies of one comment, the later-inserted reply first
C15_Witness ==
  /\ Built
  /\ Len(res.body) = 2
  /\ \E L \in SiblingLists(res.body) :
       Len(L) = 2 /\ L[1].parent_id # NoId /\ L[1].id > L[2].id

\* the nodes of a forest that hold the comment c in their replies list
HoldersOf(c, forest) ==
  {n \in Nodes(forest) : \E j \in 1..Len(n.replies) : n.replies[j].id = c}

\* the longest chain of a forest, counted in nodes
RECURSIVE Depth(_)
Depth(forest) ==
  IF forest = << >> THEN 0
  ELSE LET d == {1 + Depth(forest[j].replies) : j \in 1..Len(forest)}
       IN CHOOSE m \in d : \A x \in d : x <= m

\* C16: when every non-null parent_id of the input resolves within the
\* input, every input comment is in the forest exactly once, and every
\* comment with a parent is in the replies list of the node of its parent
\* and of no other node, at any depth and in any input order.
C16_EachOnceUnderParent ==
  (Built /\ AllResolve(resultRows)) =>
    /\ Len(FlatIds(res.body)) = Len(resultRows)
    /\ {FlatIds(res.body)[j] : j \in 1..Len(FlatIds(res.body))} = RowIds(resultRows)
    /\ \A k \in 1..Len(resultRows) :
         IF resultRows[k].parent_id = NoId
         THEN /\ HoldersOf(resultRows[k].id, res.body) = {}
              /\ \E j \in 1..Len(res.body) : res.body[j].id = resultRows[k].id
         ELSE /\ Cardinality(HoldersOf(resultRows[k].id, res.body)) = 1
              /\ \A n \in HoldersOf(resultRows[k].id, res.body) :
                   n.id = resultRows[k].parent_id
              /\ \A j \in 1..Len(res.body) : res.body[j].id # resultRows[k].id

\* a chain of three comments whose replies come before their parents
C16_Witness ==
  /\ Built /\ AllResolve(resultRows)
  /\ Depth(res.body) >= 3
  /\ \E i, k \in 1..Len(resultRows) :
       i < k /\ resultRows[i].parent_id = resultRows[k].id

\* C17: a submission whose author_name or content is missing, empty, or
\* empty once surrounding whitespace is trimmed is answered 400 and inserts
\* nothing.
C17_BlankRejected ==
  [][(/\ req'.op = "postComment"
      /\ Trim(req'.author_name) = "" \/ Trim(req'.content) = "")
       => (res'.code = 400 /\ comments' = comments /\ nextId' = nextId)]_vars

\* C18: a submission that passes validation and whose post reference, id or
\* slug, matches no post is answered 404 and stores nothing.
C18_UnknownPostIs404 ==
  [][(/\ req'.op = "postComment" /\ req'.post # NULL
      /\ ResolvedPost(req'.post) = NULL)
       => (res'.code = 404 /\ comments' = comments /\ nextId' = nextId)]_vars

\* an id-shaped reference to no post has been answered, comments stored
C18_Witness ==
  /\ req.op = "postComment" /\ res.code = 404
  /\ isUUID(req.post) /\ ResolvedPost(req.post) = NULL
  /\ DOMAIN comments # {}

\* C19: a read whose post reference, id-shaped or slug-shaped, matches no
\* post is answered 404; a 200 with an empty forest is only the answer for
\* an existing post without approved comments.
C19_ReadUnknownPostIs404 ==
  (req.op = "getComments" /\ res.code # 0) =>
    /\ ResolvedPost(req.post) = NULL => res.code = 404
    /\ (res.code = 200 /\ res.body = << >>) =>
         /\ ResolvedPost(req.post) # NULL
         /\ ApprovedRows(ResolvedPost(req.post)) = << >>

\* C20: a reply to one post whose parent_id names a comment of another post
\* is not stored: every stored comment with a parent has the post_id of its
\* parent.
C20_ParentOnSamePost ==
  \A c \in DOMAIN comments :
    (comments[c].parent_id # NoId /\ comments[c].parent_id \in DOMAIN comments)
      => comments[c].post_id = comments[comments[c].parent_id].post_id

\* C21: a reply whose parent_id names no stored comment is answered 404, not
\* 500, and stores nothing.
C21_MissingParentIs404 ==
  [][(/\ req'.op = "postComment" /\ req'.parent_id \in CommentIds
      /\ req'.parent_id \notin DOMAIN comments)
       => (res'.code = 404 /\ comments' = comments /\ nextId' = nextId)]_vars

\* C22: the post_id of every stored comment is the id of an existing post,
\* also when the comment was submitted with the slug of the post, and a read
\* with the id of a post and a read with its slug return the same forest.
C22_StoredPostIsId ==
  /\ \A c \in DOMAIN comments :
       isUUID(comments[c].post_id) /\ comments[c].post_id \in DOMAIN blog_posts
  /\ (Created /\ ~isUUID(req.post)) =>
       /\ res.body.post_id \in DOMAIN blog_posts
       /\ blog_posts[res.body.post_id].slug = req.post
       /\ comments[res.body.id].post_id = res.body.post_id
  /\ (Created /\ isUUID(req.post)) => comments[res.body.id].post_id = req.post
  /\ \A p \in DOMAIN blog_posts :
       commentsResponse(p) = commentsResponse(blog_posts[p].slug)

\* a comment submitted with a slug is readable next to another comment of
\* the post
C22_Witness ==
  /\ Created /\ ~isUUID(req.post)
  /\ res.body.id \in NodeIds(commentsResponse(req.post).body)
  /\ Cardinality(NodeIds(commentsResponse(res.body.post_id).body)) >= 2

\* C23: the read endpoint returns no comment of a post whose status is draft
\* or archived, approved comments included.
C23_PostStatusGatesRead ==
  (/\ req.op = "getComments" /\ res.code = 200
   /\ ResolvedPost(req.post) # NULL
   /\ blog_posts[ResolvedPost(req.post)].status # "published")
    => res.body = << >>

\* C24: a submission answered 201 adds one comment and leaves every stored
\* comment and every post as it was; a submission answered 400, 404 or 500
\* leaves the store as it was.
C24_SubmissionFrame ==
  [][req'.op = "postComment" =>
       /\ blog_posts' = blog_posts
       /\ res'.code \in {201, 400, 404, 500}
       /\ IF res'.code = 201
          THEN /\ res'.body.id \notin DOMAIN comments
               /\ DOMAIN comments' = DOMAIN comments \cup {res'.body.id}
               /\ \A c \in DOMAIN comments : comments'[c] = comments[c]
               /\ updated_now' = {res'.body.id}
          ELSE /\ comments' = comments
               /\ nextId' = nextId
               /\ updated_now' = {}]_vars

\* a submission has been stored next to comments of both posts, one of them
\* moderated
C24_Witness ==
  /\ Created
  /\ Cardinality(DOMAIN comments) = 3
  /\ \E c, d \in DOMAIN comments \ {res.body.id} :
       /\ comments[c].post_id # comments[d].post_id
       /\ comments[c].status = "spam"

\* C25: every comment or reply submission of the post page that fails, in
\* the page's own check or with a response that is not ok or without a
\* response, shows the submitter a notification.
C25_FailureNotified ==
  (~commentsPage.awaiting /\ commentsPage.outcome \in {"invalid", "caught"})
    => commentsPage.alerts > 0

\* C26: the status of every stored comment is pending, approved, spam or
\* deleted; a status update with another value or with none leaves the
\* comment as it was and is not answered 200.
C26_StatusDomain ==
  /\ \A c \in DOMAIN comments :
       comments[c].status \in {"pending", "approved", "spam", "deleted"}
  /\ (/\ req.op = "updateComment" /\ req.id # NoId
      /\ req.status \notin {"pending", "approved", "spam", "deleted"})
       => res.code # 200

\* following parent_id from c arrives at a top-level comment within fuel links
RECURSIVE ReachesTopLevel(_, _, _)
ReachesTopLevel(c, tbl, fuel) ==
  IF tbl[c].parent_id = NoId THEN TRUE
  ELSE IF fuel = 0 \/ tbl[c].parent_id \notin DOMAIN tbl THEN FALSE
  ELSE ReachesTopLevel(tbl[c].parent_id, tbl, fuel - 1)

\* C27: in every reachable state the non-null parent_id of a stored comment
\* names a stored comment other than itself, and the parent links from any
\* comment lead to a top-level comment (no dangling parent, no cycle).
C27_ParentIntegrity ==
  \A c \in DOMAIN comments :
    /\ comments[c].parent_id # NoId =>
         comments[c].parent_id \in DOMAIN comments \ {c}
    /\ ReachesTopLevel(c, comments, Cardinality(DOMAIN comments))

\* a delete has removed a comment and left a reply to another one
C27_Witness ==
  /\ req.op = "deleteComment" /\ res.code = 200
  /\ req.id \in CommentIds \ DOMAIN comments /\ req.id < nextId
  /\ \E c \in DOMAIN comments : comments[c].parent_id # NoId

\* C28: an approved reply is in the forest of a read exactly when every
\* comment above it, parent, grandparent and so on, is approved too.
C28_VisibleIffAncestorsApproved ==
  \A c \in DOMAIN comments :
    (comments[c].status = "approved" /\ comments[c].parent_id # NoId) =>
      (c \in ReadableIds <=>
         \A a \in Ancestors(c, comments) : comments[a].status = "approved")

\* the delete among the requests in flight has been answered
DeleteDone == \E r \in inFlight : r.op = "deleteComment" /\ r.code # 0

\* C29: with an approve and a delete of one comment in flight, in whatever
\* order their handlers run and with reads in between: once the delete is
\* answered the comment and its replies at any depth are in no stored row and
\* in no read; an approve that runs after the delete is answered 404 and
\* changes nothing; no removed row comes back.
C29_ApproveDeleteRace ==
  /\ [](DeleteDone =>
          /\ \A r \in inFlight :
               /\ r.id \notin DOMAIN comments
               /\ \A d \in DOMAIN comments : r.id \notin Ancestors(d, comments)
          /\ ReadableIds \subseteq DOMAIN comments
          /\ (req.op = "getComments" /\ res.code = 200) =>
               NodeIds(res.body) \subseteq DOMAIN comments)
  /\ [][/\ (req'.op = "deleteComment" /\ req'.id \in DOMAIN comments) =>
            /\ DOMAIN comments' =
                 DOMAIN comments \ ({req'.id} \cup Descendants(req'.id, comments))
            /\ \A d \in DOMAIN comments' : comments'[d] = comments[d]
        /\ (req'.op = "updateComment" /\ req'.id \notin DOMAIN comments) =>
            /\ res'.code = 404
            /\ comments' = comments
        /\ \A d \in CommentIds :
             (d < nextId /\ d \notin DOMAIN comments) => d \notin DOMAIN comments']_vars

\* the approve ran after the delete, which removed the comment with a reply,
\* and a read followed
C29_Witness ==
  /\ req.op = "getComments" /\ res.code = 200
  /\ \E r \in inFlight : r.op = "updateComment" /\ r.code = 404
  /\ DeleteDone
  /\ nextId = 4 /\ Cardinality(DOMAIN comments) = 1

\* C30: on the post list page at most one loadPosts call awaits api.getPosts
\* at any time: an event that arrives while isLoading is true fetches
\* nothing; isLoading is false again when the awaited call has settled, with
\* posts, with none or with an error; and an event that arrives then starts
\* a load.
C30_SingleLoad ==
  /\ [](/\ Len(blogPage.pending) <= 1
        /\ blogPage.isLoading <=> Len(blogPage.pending) = 1)
  /\ [][/\ blogPage.isLoading =>
             (blogPage'.pending = blogPage.pending \/ blogPage'.pending = << >>)
        /\ Len(blogPage'.pending) < Len(blogPage.pending) => ~blogPage'.isLoading
        /\ ~blogPage.isLoading =>
             (blogPage'.isLoading /\ Len(blogPage'.pending) = 1)]_vars

\* a load settled with an error after load-more and a search, and the page
\* is ready for the next event
C30_Witness ==
  /\ ~blogPage.isLoading /\ blogPage.pending = << >>
  /\ blogPage.settled = "error"
  /\ blogPage.searchQuery = "q"
  /\ blogPage.currentPage = 2
====
